---- MODULE Spec2Model ----
(***************************************************************************)
(* Near-Earth-object catalogue: the NearEarthObject and CloseApproach      *)
(* constructors (models.py) and the NEODatabase join, lookups and lazy     *)
(* query (database.py).                                                    *)
(*                                                                         *)
(* Python values are represented as follows.                               *)
(*   str    a sequence of one-character strings, '' is << >>               *)
(*   None   the one-element sequence << "<None>" >>, which is no str       *)
(*          because "<None>" is not a character                           *)
(*   float  a record [nan, val]; the model only needs whole numbers        *)
(*   dict   a function whose DOMAIN is the set of keys                     *)
(*   object reference   the position of the object in its collection,      *)
(*          NoRef (0) for None                                             *)
(***************************************************************************)
EXTENDS Integers, Sequences, FiniteSets, TLC

VARIABLES neos, approaches, db, ret, gen, yielded, calls, ctor

vars == <<neos, approaches, db, ret, gen, yielded, calls, ctor>>

\* ---------------------------------------------------------------- bounds
MaxStrLen == 2
MaxNeos == 2
MaxApproaches == 3
MaxFilters == 2

\* ------------------------------------------------------- Python values
None == << "<None>" >>
NoRef == 0
NaN == [nan |-> TRUE, val |-> 0]
Float(v) == [nan |-> FALSE, val |-> v]
Whitespace == {" "}
Digits == {"1"}

SeqsUpTo(S, n) == UNION {[1..k -> S] : k \in 0..n}

\* bool(v) for v a str or None
Truthy(v) == v # None /\ v # << >>

\* info.get(key, default)
Get(info, key, default) == IF key \in DOMAIN info THEN info[key] ELSE default

RECURSIVE LStrip(_)
LStrip(s) == IF s # << >> /\ Head(s) \in Whitespace THEN LStrip(Tail(s)) ELSE s

RECURSIVE RStrip(_)
RStrip(s) ==
    IF s # << >> /\ s[Len(s)] \in Whitespace
    THEN RStrip(SubSeq(s, 1, Len(s) - 1))
    ELSE s

\* str.strip()
Strip(s) == RStrip(LStrip(s))

\* NearEarthObject.is_blank: despite its name, true of a NON-blank value
is_blank(object) == Truthy(object) /\ Truthy(Strip(object))

RECURSIVE DecimalValue(_)
DecimalValue(t) ==
    IF t = << >> THEN 0
    ELSE 10 * DecimalValue(SubSeq(t, 1, Len(t) - 1)) + (IF t[Len(t)] = "1" THEN 1 ELSE 0)

Return(v) == [raised |-> FALSE, val |-> v]
Raise(e) == [raised |-> TRUE, val |-> e]

\* a variant of float(s) that falls back to nan instead of raising
float_or_nan(s) ==
    LET t == Strip(s)
    IN  IF t # << >> /\ \A i \in 1..Len(t) : t[i] \in Digits
        THEN Return(Float(DecimalValue(t)))
        ELSE Return(NaN)

\* float(s) for s a str: surrounding whitespace is ignored, the rest must
\* be a number, otherwise ValueError
float(s) ==
    LET t == Strip(s)
    IN  IF t # << >> /\ \A i \in 1..Len(t) : t[i] \in Digits
        THEN Return(Float(DecimalValue(t)))
        ELSE Raise("ValueError")

\* helpers.cd_to_datetime: a well-formed code parses to a timestamp, any
\* other string raises
WellFormedCd == {<< "t" >>}
cd_to_datetime(s) ==
    IF s \in WellFormedCd THEN Return([minute |-> Len(s)]) ELSE Raise("ValueError")

\* ------------------------------------------------------------ models.py
NearEarthObject_init(info) ==
    LET rawName == Get(info, "name", None)
        rawDiameter == Get(info, "diameter", None)
        rawPha == Get(info, "pha", None)
        name == IF Truthy(rawName) /\ is_blank(rawName) THEN rawName ELSE None
        diameter == IF Truthy(rawDiameter) /\ is_blank(rawDiameter)
                    THEN float(rawDiameter)
                    ELSE Return(NaN)
        hazardous == Truthy(rawPha) /\ rawPha \in {<< "Y" >>, << "y" >>}
    IN  IF diameter.raised
        THEN diameter
        ELSE Return([designation |-> Get(info, "pdes", None),
                     name |-> name,
                     diameter |-> diameter.val,
                     hazardous |-> hazardous,
                     approaches |-> << >>])

CloseApproach_init(info) ==
    LET distance == IF "dist" \in DOMAIN info THEN float(info["dist"]) ELSE Return(Float(0))
        time == IF Truthy(Get(info, "cd", None))
                THEN cd_to_datetime(info["cd"])
                ELSE Return(None)
        velocity == IF "v_rel" \in DOMAIN info THEN float(info["v_rel"]) ELSE Return(Float(0))
    IN  IF distance.raised THEN distance
        ELSE IF time.raised THEN time
        ELSE IF velocity.raised THEN velocity
        ELSE Return([_designation |-> Get(info, "des", << >>),
                     distance |-> distance.val,
                     time |-> time.val,
                     velocity |-> velocity.val,
                     neo |-> NoRef])

\* field bags: every key may be missing, or present with one of its values
Bags(valsOf) ==
    UNION {{f \in [D -> UNION {valsOf[k] : k \in D}] : \A k \in D : f[k] \in valsOf[k]} :
           D \in SUBSET DOMAIN valsOf}

\* ---------------------------------------------------------- database.py
DictPut(m, k, v) == [x \in DOMAIN m \cup {k} |-> IF x = k THEN v ELSE m[x]]

\* dict.get(k): None when the key is absent
DictGet(m, k) == IF k \in DOMAIN m THEN m[k] ELSE NoRef

\* a designation index in which the first NEO of a designation wins
RECURSIVE DesignationMap_FirstWins(_, _)
DesignationMap_FirstWins(ns, i) ==
    IF i = 0 THEN << >>
    ELSE LET m == DesignationMap_FirstWins(ns, i - 1)
         IN  IF ns[i].designation \in DOMAIN m THEN m ELSE DictPut(m, ns[i].designation, i)

\* {neo.designation: neo for neo in self._neos}, the first i NEOs done
RECURSIVE DesignationMap(_, _)
DesignationMap(ns, i) ==
    IF i = 0 THEN << >>
    ELSE DictPut(DesignationMap(ns, i - 1), ns[i].designation, i)

\* {neo.name: neo for neo in self._neos}, the first i NEOs done
RECURSIVE NameMap(_, _)
NameMap(ns, i) ==
    IF i = 0 THEN << >>
    ELSE DictPut(NameMap(ns, i - 1), ns[i].name, i)

\* a join step that appends the approach but leaves item.neo unset
LinkStep_NoBackref(st, dmap, a) ==
    LET item == st.approaches[a]
        found == DictGet(dmap, item._designation)
    IN  IF found # NoRef
        THEN [neos |-> [st.neos EXCEPT ![found].approaches = Append(@, a)],
              approaches |-> st.approaches]
        ELSE st

\* a join step that inserts the approach at the front of the NEO's list
LinkStep_Prepend(st, dmap, a) ==
    LET item == st.approaches[a]
        found == DictGet(dmap, item._designation)
    IN  IF found # NoRef
        THEN [neos |-> [st.neos EXCEPT ![found].approaches = <<a>> \o @],
              approaches |-> [st.approaches EXCEPT ![a].neo = found]]
        ELSE st

\* the body of the join loop for the approach at position a;
\* st = [neos, approaches] are the objects as mutated so far
LinkStep(st, dmap, a) ==
    LET item == st.approaches[a]
        found == DictGet(dmap, item._designation)
    IN  IF found # NoRef
        THEN [neos |-> [st.neos EXCEPT ![found].approaches = Append(@, a)],
              approaches |-> [st.approaches EXCEPT ![a].neo = found]]
        ELSE st

\* for item in self._approaches: ..., the first k approaches done
RECURSIVE LinkAll(_, _, _)
LinkAll(st, dmap, k) ==
    IF k = 0 THEN st ELSE LinkStep(LinkAll(st, dmap, k - 1), dmap, k)

\* a catalogue that keeps only the approaches the join linked
StoredApproaches_LinkedOnly(as) ==
    SelectSeq([a \in 1..Len(as) |-> a], LAMBDA a : as[a].neo # NoRef)

\* self._approaches = approaches: the list itself, whose objects the join
\* mutates in place
StoredApproaches(as) == [a \in 1..Len(as) |-> a]

NEODatabase_init(ns, as) ==
    LET dmap == DesignationMap(ns, Len(ns))
        nmap == NameMap(ns, Len(ns))
        linked == LinkAll([neos |-> ns, approaches |-> as], dmap, Len(as))
    IN  [neos |-> linked.neos,
         approaches |-> linked.approaches,
         db |-> [built |-> TRUE,
                 _neos |-> [i \in 1..Len(ns) |-> i],
                 _approaches |-> StoredApproaches(linked.approaches),
                 _neo_designation_map |-> dmap,
                 _neo_name_map |-> nmap]]

\* a lookup by subscript, self._neo_designation_map[designation]
get_neo_by_designation_subscript(designation) ==
    IF designation \in DOMAIN db._neo_designation_map
    THEN Return(db._neo_designation_map[designation])
    ELSE Raise("KeyError")

get_neo_by_designation(designation) ==
    Return(DictGet(db._neo_designation_map, designation))

get_neo_by_name(name) ==
    Return(DictGet(db._neo_name_map, name))

\* the predicate calls of all([f(item) for f in filters]): no short circuit
RECURSIVE all_calls_eager(_, _, _)
all_calls_eager(filters, j, item) ==
    IF j > Len(filters) THEN << >>
    ELSE <<[f |-> j, item |-> item]>> \o all_calls_eager(filters, j + 1, item)

\* the predicate calls made by all(f(item) for f in filters), from filter j on
RECURSIVE all_calls(_, _, _)
all_calls(filters, j, item) ==
    IF j > Len(filters) THEN << >>
    ELSE <<[f |-> j, item |-> item]>> \o
         (IF item \in filters[j] THEN all_calls(filters, j + 1, item) ELSE << >>)

\* the value of any(f(item) for f in filters)
any_result(filters, item) == \E j \in 1..Len(filters) : item \in filters[j]

\* the value of all(f(item) for f in filters)
all_result(filters, item) == \A j \in 1..Len(filters) : item \in filters[j]

\* the generator body run from position p of self._approaches until the
\* next yield or the end of the loop; log collects the predicate calls
RECURSIVE Resume(_, _, _, _)
Resume(items, filters, p, log) ==
    IF p > Len(items)
    THEN [state |-> "done", pos |-> Len(items), item |-> NoRef, calls |-> log]
    ELSE LET item == items[p]
             log2 == log \o all_calls(filters, 1, item)
         IN  IF all_result(filters, item)
             THEN [state |-> "suspended", pos |-> p, item |-> item, calls |-> log2]
             ELSE Resume(items, filters, p + 1, log2)

\* what calling query(filters) runs before the first pull: nothing
query_create(filters) == [state |-> "created", filters |-> filters, pos |-> 0]

\* ------------------------------------------------------------ inputs
NeoDesignations == {<< "a" >>, << "b" >>}
ApproachDesignations == NeoDesignations \cup {<< "c" >>}
NeoNames == {<< >>, << "n" >>}
LookupDesignations == ApproachDesignations \cup {None}
LookupNames == NeoNames \cup {None, << "z" >>}

DbNeoInfos == {f \in Bags([pdes |-> NeoDesignations, name |-> NeoNames]) : "pdes" \in DOMAIN f}
DbApproachInfos == {f \in Bags([des |-> ApproachDesignations]) : "des" \in DOMAIN f}

DbNeos == {NearEarthObject_init(f).val : f \in DbNeoInfos}
DbApproaches == {CloseApproach_init(f).val : f \in DbApproachInfos}

IdleDb == [built |-> FALSE, _neos |-> << >>, _approaches |-> << >>,
           _neo_designation_map |-> << >>, _neo_name_map |-> << >>]
IdleRet == [op |-> "none", arg |-> None, raised |-> FALSE, val |-> NoRef]
IdleGen == [state |-> "none", filters |-> << >>, pos |-> 0]
IdleCtor == [kind |-> "none", info |-> << >>, status |-> "idle", obj |-> None]

\* --------------------------------------- Spec: construction and lookups
Init ==
    /\ neos \in SeqsUpTo(DbNeos, MaxNeos)
    /\ approaches \in SeqsUpTo(DbApproaches, MaxApproaches)
    /\ db = IdleDb
    /\ ret = IdleRet
    /\ gen = IdleGen
    /\ yielded = << >>
    /\ calls = << >>
    /\ ctor = IdleCtor

Construct ==
    /\ ~db.built
    /\ LET r == NEODatabase_init(neos, approaches)
       IN  /\ neos' = r.neos
           /\ approaches' = r.approaches
           /\ db' = r.db
    /\ UNCHANGED <<ret, gen, yielded, calls, ctor>>

GetNeoByDesignation ==
    /\ db.built
    /\ \E d \in LookupDesignations :
          LET r == get_neo_by_designation(d)
          IN  ret' = [op |-> "designation", arg |-> d, raised |-> r.raised, val |-> r.val]
    /\ UNCHANGED <<neos, approaches, db, gen, yielded, calls, ctor>>

GetNeoByName ==
    /\ db.built
    /\ \E n \in LookupNames :
          LET r == get_neo_by_name(n)
          IN  ret' = [op |-> "name", arg |-> n, raised |-> r.raised, val |-> r.val]
    /\ UNCHANGED <<neos, approaches, db, gen, yielded, calls, ctor>>

Next == Construct \/ GetNeoByDesignation \/ GetNeoByName

Spec == Init /\ [][Next]_vars

\* ------------------------------------------------ SpecQuery: query()
QueryNeos == <<NearEarthObject_init([pdes |-> << "a" >>]).val>>
QueryApproaches ==
    SeqsUpTo({CloseApproach_init([des |-> d]).val : d \in {<< "a" >>, << "c" >>}}, MaxApproaches)

\* a predicate is the set of approaches it returns true for
Predicates == SUBSET (1..Len(approaches))

InitQuery ==
    /\ \E as \in QueryApproaches :
          LET r == NEODatabase_init(QueryNeos, as)
          IN  /\ neos = r.neos
              /\ approaches = r.approaches
              /\ db = r.db
    /\ ret = IdleRet
    /\ gen = IdleGen
    /\ yielded = << >>
    /\ calls = << >>
    /\ ctor = IdleCtor

\* query(filters): each call makes a generator of its own; the model follows
\* one generator from its creation on
Query ==
    /\ db.built
    /\ gen.state = "none"
    /\ \E filters \in SeqsUpTo(Predicates, MaxFilters) :
          gen' = query_create(filters)
    /\ yielded' = << >>
    /\ calls' = << >>
    /\ UNCHANGED <<neos, approaches, db, ret, ctor>>

\* next() on the generator
Pull ==
    /\ gen.state \in {"created", "suspended"}
    /\ LET r == Resume(db._approaches, gen.filters, gen.pos + 1, calls)
       IN  /\ gen' = [gen EXCEPT !.state = r.state, !.pos = r.pos]
           /\ calls' = r.calls
           /\ yielded' = IF r.state = "suspended" THEN Append(yielded, r.item) ELSE yielded
    /\ UNCHANGED <<neos, approaches, db, ret, ctor>>

NextQuery == Query \/ Pull

SpecQuery == InitQuery /\ [][NextQuery]_vars

\* ------------------------------------------- SpecModels: constructors
NumericStrs == SeqsUpTo(Whitespace \cup Digits \cup {"x"}, MaxStrLen)
NameStrs == SeqsUpTo(Whitespace \cup {"n"}, MaxStrLen)
PhaStrs == {<< >>, << " " >>, << "Y" >>, << "y" >>, << "N" >>}
CdStrs == {<< >>, << " " >>, << "t" >>, << "x" >>}
DesStrs == {<< >>, << " " >>, << "a" >>}

NeoInfos == Bags([pdes |-> {<< "a" >>}, name |-> NameStrs,
                  diameter |-> NumericStrs, pha |-> PhaStrs])
ApproachInfos == Bags([des |-> DesStrs, dist |-> NumericStrs,
                       v_rel |-> NumericStrs, cd |-> CdStrs])

InitModels ==
    /\ neos = << >>
    /\ approaches = << >>
    /\ db = IdleDb
    /\ ret = IdleRet
    /\ gen = IdleGen
    /\ yielded = << >>
    /\ calls = << >>
    /\ \/ \E info \in NeoInfos :
            ctor = [kind |-> "neo", info |-> info, status |-> "pending", obj |-> None]
       \/ \E info \in ApproachInfos :
            ctor = [kind |-> "approach", info |-> info, status |-> "pending", obj |-> None]

Finish(r) ==
    ctor' = [ctor EXCEPT !.status = IF r.raised THEN r.val ELSE "ok",
                         !.obj = IF r.raised THEN None ELSE r.val]

ConstructNearEarthObject ==
    /\ ctor.kind = "neo"
    /\ ctor.status = "pending"
    /\ Finish(NearEarthObject_init(ctor.info))
    /\ UNCHANGED <<neos, approaches, db, ret, gen, yielded, calls>>

ConstructCloseApproach ==
    /\ ctor.kind = "approach"
    /\ ctor.status = "pending"
    /\ Finish(CloseApproach_init(ctor.info))
    /\ UNCHANGED <<neos, approaches, db, ret, gen, yielded, calls>>

NextModels == ConstructNearEarthObject \/ ConstructCloseApproach

SpecModels == InitModels /\ [][NextModels]_vars


\* =============================================================== claims
NeoIds == 1..Len(neos)
ApproachIds == 1..Len(approaches)
Count(s, x) == Cardinality({k \in 1..Len(s) : s[k] = x})
DistinctDesignations ==
    \A i, j \in NeoIds : neos[i].designation = neos[j].designation => i = j
UniqueDesignation(i) ==
    \A j \in NeoIds : neos[j].designation = neos[i].designation => j = i
Unmatched(a) == \A i \in NeoIds : approaches[a]._designation # neos[i].designation

\* C1: after construction over NEOs with pairwise distinct designations,
\* every approach whose staging designation equals an NEO's designation
\* occurs exactly once in that NEO's approaches and refers to that NEO.
C1_LinkedExactlyOnce ==
    db.built /\ DistinctDesignations =>
        \A a \in ApproachIds : \A i \in NeoIds :
            approaches[a]._designation = neos[i].designation =>
                /\ Count(neos[i].approaches, a) = 1
                /\ approaches[a].neo = i

C1_Witness ==
    /\ db.built
    /\ DistinctDesignations
    /\ Len(neos) = 2
    /\ \E a, b \in ApproachIds :
          /\ a # b
          /\ approaches[a]._designation = neos[2].designation
          /\ approaches[b]._designation = neos[2].designation
          /\ approaches[a].neo = 2

\* C2: after construction, an approach whose staging designation equals no
\* NEO's designation has neo unset, occurs in no NEO's approaches, and is
\* still in the approach collection that query() traverses.
C2_UnmatchedStaysUnlinked ==
    db.built =>
        \A a \in ApproachIds :
            Unmatched(a) =>
                /\ approaches[a].neo = NoRef
                /\ \A i \in NeoIds : Count(neos[i].approaches, a) = 0
                /\ Count(db._approaches, a) = 1

C2_Witness ==
    /\ db.built
    /\ Len(neos) >= 1
    /\ \E a, b \in ApproachIds :
          /\ Unmatched(a)
          /\ approaches[a].neo = NoRef
          /\ approaches[b].neo # NoRef

\* C3: a fully consumed query(filters) has yielded exactly the approaches of
\* the collection that every predicate accepts, in storage order; all of
\* them for no filters, none when a predicate is always false.
Accepted(filters) ==
    SelectSeq(db._approaches, LAMBDA a : \A j \in 1..Len(filters) : a \in filters[j])

C3_QueryYieldsAccepted ==
    gen.state = "done" =>
        /\ yielded = Accepted(gen.filters)
        /\ (gen.filters = << >> => yielded = db._approaches)
        /\ ((\E j \in 1..Len(gen.filters) : gen.filters[j] = {}) => yielded = << >>)

C3_Witness ==
    /\ gen.state = "done"
    /\ Len(gen.filters) = 2
    /\ gen.filters[1] # gen.filters[2]
    /\ Len(yielded) = 2
    /\ Len(db._approaches) = 3

\* C4: the name index has entries only for non-empty names, so looking up
\* None or '' by name returns None.
C4_NoEntryForAbsentName ==
    db.built =>
        /\ \A k \in DOMAIN db._neo_name_map : k # None /\ k # << >>
        /\ (ret.op = "name" /\ ret.arg \in {None, << >>} => ret.val = NoRef)

\* C5: a constructor given fields that are missing or blank never raises,
\* and each such field takes its default.
Blank(v) == Strip(v) = << >>
MissingOrBlank(info, k) == k \notin DOMAIN info \/ Blank(info[k])
IsNumber(s) == Strip(s) # << >> /\ \A i \in 1..Len(Strip(s)) : Strip(s)[i] \in Digits
Constructed == ctor.status \notin {"idle", "pending"}
OtherFieldsValid ==
    /\ \A k \in {"diameter", "dist", "v_rel"} \cap DOMAIN ctor.info :
          Blank(ctor.info[k]) \/ IsNumber(ctor.info[k])
    /\ "cd" \in DOMAIN ctor.info => Blank(ctor.info["cd"]) \/ ctor.info["cd"] \in WellFormedCd

C5_BlankFieldsDefault ==
    Constructed /\ OtherFieldsValid =>
        /\ ctor.status = "ok"
        /\ ctor.kind = "neo" =>
              /\ MissingOrBlank(ctor.info, "name") => ctor.obj.name = None
              /\ MissingOrBlank(ctor.info, "diameter") => ctor.obj.diameter = NaN
              /\ MissingOrBlank(ctor.info, "pha") => ctor.obj.hazardous = FALSE
        /\ ctor.kind = "approach" =>
              /\ MissingOrBlank(ctor.info, "des") => ctor.obj._designation = << >>
              /\ MissingOrBlank(ctor.info, "dist") => ctor.obj.distance = Float(0)
              /\ MissingOrBlank(ctor.info, "v_rel") => ctor.obj.velocity = Float(0)
              /\ MissingOrBlank(ctor.info, "cd") => ctor.obj.time = None

\* C6 as claimed: a non-blank, non-numeric diameter yields the nan diameter
\* and no error.
NonNumericDiameter ==
    /\ ctor.kind = "neo"
    /\ "diameter" \in DOMAIN ctor.info
    /\ ~Blank(ctor.info["diameter"])
    /\ \E i \in 1..Len(Strip(ctor.info["diameter"])) :
          Strip(ctor.info["diameter"])[i] \notin Digits

FirstFalse(filters, item) ==
    IF \E j \in 1..Len(filters) : item \notin filters[j]
    THEN CHOOSE j \in 1..Len(filters) :
            item \notin filters[j] /\ \A h \in 1..(j - 1) : item \in filters[h]
    ELSE Len(filters)

CallsOn(filters, item) == [j \in 1..FirstFalse(filters, item) |-> [f |-> j, item |-> item]]

RECURSIVE ExpectedCalls(_, _, _)
ExpectedCalls(filters, items, p) ==
    IF p = 0 THEN << >>
    ELSE ExpectedCalls(filters, items, p - 1) \o CallsOn(filters, items[p])

LastYieldedPos ==
    CHOOSE p \in 1..Len(db._approaches) : db._approaches[p] = yielded[Len(yielded)]

C7_PredicatesCalledOnDemand ==
    /\ gen.state = "created" => yielded = << >> /\ calls = << >>
    /\ gen.state = "suspended" =>
          /\ yielded # << >>
          /\ calls = ExpectedCalls(gen.filters, db._approaches, LastYieldedPos)

C7_Witness ==
    /\ gen.state = "suspended"
    /\ Len(db._approaches) = 3
    /\ Len(gen.filters) = 2
    /\ yielded = << 2 >>
    /\ 1 \notin gen.filters[1]
    /\ Len(calls) = 3

\* C8: a lookup of a designation or name that no NEO has returns None and
\* does not raise; a lookup of an NEO's designation returns that NEO.
C8_LookupNotFoundIsNone ==
    /\ ret.op = "designation" =>
          /\ ~ret.raised
          /\ (\A i \in NeoIds : neos[i].designation # ret.arg) => ret.val = NoRef
          /\ \A i \in NeoIds :
                neos[i].designation = ret.arg /\ UniqueDesignation(i) => ret.val = i
    /\ ret.op = "name" =>
          /\ ~ret.raised
          /\ (\A i \in NeoIds : neos[i].name # ret.arg) => ret.val = NoRef

C8_Witness ==
    /\ ret.op = "designation"
    /\ Len(neos) = 2
    /\ DistinctDesignations
    /\ ret.arg = << "c" >>
    /\ ret.val = NoRef

\* C9: after construction, the approaches of an NEO (designations being
\* unique) are exactly the subsequence of the approach collection whose
\* staging designation is the NEO's designation.
MatchingApproaches(i) ==
    SelectSeq(db._approaches, LAMBDA a : approaches[a]._designation = neos[i].designation)

C9_ApproachesInCollectionOrder ==
    db.built =>
        \A i \in NeoIds : UniqueDesignation(i) => neos[i].approaches = MatchingApproaches(i)

C9_Witness ==
    /\ db.built
    /\ Len(neos) = 2
    /\ DistinctDesignations
    /\ neos[1].approaches = << 1, 3 >>
    /\ neos[2].approaches = << 2 >>

\* C10: after construction the two directions of the link agree, also with
\* duplicate designations: an approach in an NEO's list refers to that NEO
\* and carries its designation, a linked approach is in its NEO's list, and
\* an NEO shadowed by a later one of the same designation has no approaches.
Shadowed(i) == \E j \in NeoIds : j > i /\ neos[j].designation = neos[i].designation

C10_LinkDirectionsAgree ==
    db.built =>
        /\ \A i \in NeoIds : \A k \in 1..Len(neos[i].approaches) :
              LET a == neos[i].approaches[k]
              IN  /\ approaches[a].neo = i
                  /\ approaches[a]._designation = neos[i].designation
        /\ \A a \in ApproachIds :
              approaches[a].neo # NoRef => Count(neos[approaches[a].neo].approaches, a) = 1
        /\ \A i \in NeoIds : Shadowed(i) => neos[i].approaches = << >>

C10_Witness ==
    /\ db.built
    /\ Len(neos) = 2
    /\ Shadowed(1)
    /\ Len(neos[2].approaches) = 2
====
